---- MODULE Spec2Model ----
(***************************************************************************)
(* A model of the <cloud-switch> custom element of                         *)
(* src/js/switch-component.js: the host element's attributes, the two      *)
(* inner checkboxes, the label and the handle, and every setter, callback  *)
(* and event listener of the class SwitchElement.                          *)
(*                                                                         *)
(* Attribute values are strings, as in the DOM.  An absent attribute is    *)
(* the value NULL (what getAttribute returns for it); the four-letter      *)
(* string "null" is what setAttribute(name, null) stores.                  *)
(*                                                                         *)
(* A host setAttribute/removeAttribute on an observed attribute runs       *)
(* attributeChangedCallback before it returns, and the callback runs the   *)
(* setter, which calls setAttribute again: the operators below are         *)
(* mutually recursive exactly as the code is.                              *)
(***************************************************************************)
EXTENDS Integers, Sequences, FiniteSets, TLC

VARIABLES
    host,         \* the attributes of the <cloud-switch> element
    shadowCheck,  \* the attributes of the checkbox in the shadow root
    checkbox,     \* the attributes of the form checkbox, a child of the host
    label,        \* the attributes of the [label] span
    style,        \* the inline style of the host
    handleStyle,  \* the inline style of the [handle] span
    classList,    \* the class list of the host
    listeners,    \* the event listener list of the host: the type of each entry
    connected,    \* the element is in a document
    calls,        \* deepest attributeChangedCallback nesting of the last operation
    diverged,     \* an operation nested its callbacks deeper than MaxCalls
    op,           \* the last operation: its name, attribute and argument
    pre,          \* the three checked flags before the last operation
    prevOp        \* the name of the operation before the last

vars == <<host, shadowCheck, checkbox, label, style, handleStyle,
          classList, listeners, connected, calls, diverged, op, pre, prevOp>>

\* ------------------------------------------------------------------ bounds
\* The deepest nesting of attributeChangedCallback invocations an operation
\* is followed into before it is reported as diverged.
MaxCalls == 12

\* The number of free-text strings offered as name/value/on-text/off-text.
MaxStr == 2

\* The number of pixel sizes offered as width/height.
MaxSize == 3

\* --------------------------------------------------------- the DOM's values
NULL == "<absent>"

BoolAttrs == {"checked", "disabled", "readonly"}

observedAttributes ==
    {"disabled", "readonly", "checked", "value", "width", "height",
     "name", "color", "on-text", "off-text"}

HostAttrs == observedAttributes \cup {"role", "tabindex"}

VALID_COLORS ==
    {"success", "primary", "secondary", "danger", "warning", "info", "dark"}

SPACE == 32
ENTER == 13
\* e.which of the keys pressed: SPACE, ENTER and the letter A.
Keys == {SPACE, ENTER, 65}

\* String(v) as setAttribute applies it to its value argument.
ToAttrString(v) == IF v = NULL THEN "null" ELSE v

\* ------------------------------------------------------------ input domains
StrPool == <<"a", "b", "c">>
Str == {StrPool[i] : i \in 1..MaxStr}

\* Pixel sizes a page writes; 24 and 48 are written by connectedCallback.
SizePool == <<96, 2, 0, 7, 10>>
Numerals == {SizePool[i] : i \in DOMAIN SizePool} \cup {24, 48}
Sizes == {ToString(SizePool[i]) : i \in 1..MaxSize}

\* Colours a page writes: two themes and one string that is no theme.
Colors == {"primary", "dark", "purple"}

\* ----------------------------------------------------- JavaScript coercions
\* Number(v) is a number (not NaN): null is 0, a decimal numeral is itself.
IsNumeric(v) == v = NULL \/ \E n \in Numerals : ToString(n) = v

\* Number(v) where IsNumeric(v).
NumberOf(v) == IF v = NULL THEN 0 ELSE CHOOSE n \in Numerals : ToString(n) = v

\* `${v}` for a number given in hundredths (45 * w is 0.45 * w in hundredths).
FormatHundredths(h) ==
    LET i == h \div 100
        f == h % 100
    IN  IF f = 0 THEN ToString(i)
        ELSE IF f % 10 = 0 THEN ToString(i) \o "." \o ToString(f \div 10)
        ELSE IF f < 10 THEN ToString(i) \o ".0" \o ToString(f)
        ELSE ToString(i) \o "." \o ToString(f)

\* Number.parseInt(text) of a handle width the setter wrote ("43.2px" is 43);
\* a handle whose width was never set is empty and 0 wide.
ParseIntPx(text) ==
    IF text = NULL THEN 0
    ELSE LET m == CHOOSE k \in Numerals :
                    k >= 0 /\ FormatHundredths(45 * k) \o "px" = text
         IN  (45 * m) \div 100

\* ------------------------------------------------------------------- CSSOM
\* style.setProperty(prop, text) for a length property: a text that does not
\* parse as a non-negative length is ignored and the old value stays.
SetLength(old, valid, text) == IF valid THEN text ELSE old

\* --------------------------------------------------------- the element, s
\* The operators below take and return the whole element as a record s with
\* the fields of El; an action applies one of them to El and stores the
\* result.
El == [host |-> host, shadowCheck |-> shadowCheck, checkbox |-> checkbox,
       label |-> label, style |-> style, handleStyle |-> handleStyle,
       classList |-> classList, listeners |-> listeners,
       connected |-> connected, calls |-> calls, diverged |-> diverged,
       depth |-> 0]

HasAttribute(e, attr) == e[attr] # NULL

\* The re-entrant part: Element.setAttribute on the host, the callback it
\* runs, and the setters the callback runs.
RECURSIVE HostSetAttribute(_, _, _)
RECURSIVE HostRemoveAttribute(_, _)
RECURSIVE AttributeChangedCallback(_, _, _, _)
RECURSIVE SetProperty(_, _, _)

\* One statement after another: the first runs once, and what follows runs
\* on the state it leaves.
Then(first, rest(_)) == CHOOSE r \in {rest(x) : x \in {first}} : TRUE

\* get checked / disabled / readonly
GetChecked(s) == HasAttribute(s.host, "checked")
GetDisabled(s) == HasAttribute(s.host, "disabled")
GetReadonly(s) == HasAttribute(s.host, "readonly")

\* The body shared by set checked, set disabled and set readonly: the host,
\* then shadowCheck, then checkbox, each touched only when it differs.
SetBoolean(s, attr, value) ==
    IF value
    THEN Then(IF ~HasAttribute(s.host, attr)
              THEN HostSetAttribute(s, attr, "") ELSE s,
         LAMBDA s1 :
         Then(IF ~HasAttribute(s1.shadowCheck, attr)
              THEN [s1 EXCEPT !.shadowCheck[attr] = ""] ELSE s1,
         LAMBDA s2 :
         IF ~HasAttribute(s2.checkbox, attr)
         THEN [s2 EXCEPT !.checkbox[attr] = ""] ELSE s2))
    ELSE Then(IF HasAttribute(s.host, attr)
              THEN HostRemoveAttribute(s, attr) ELSE s,
         LAMBDA s1 :
         Then(IF HasAttribute(s1.shadowCheck, attr)
              THEN [s1 EXCEPT !.shadowCheck[attr] = NULL] ELSE s1,
         LAMBDA s2 :
         IF HasAttribute(s2.checkbox, attr)
         THEN [s2 EXCEPT !.checkbox[attr] = NULL] ELSE s2))

\* set checked that leaves the form checkbox as it was.
SetChecked_SkipsFormCheckbox(s, value) ==
    [SetBoolean(s, "checked", value) EXCEPT !.checkbox = s.checkbox]

SetChecked(s, value) == SetBoolean(s, "checked", value)
\* set disabled that leaves the form checkbox as it was.
SetDisabled_SkipsFormCheckbox(s, value) ==
    [SetBoolean(s, "disabled", value) EXCEPT !.checkbox = s.checkbox]

SetDisabled(s, value) == SetBoolean(s, "disabled", value)
\* set readonly that leaves shadowCheck as it was.
SetReadonly_SkipsShadowCheck(s, value) ==
    [SetBoolean(s, "readonly", value) EXCEPT !.shadowCheck = s.shadowCheck]

SetReadonly(s, value) == SetBoolean(s, "readonly", value)

\* get width / set width.  The handle is 0.45 of the width; --handle-left is
\* a custom property and takes any text, read back from the computed width of
\* the handle, which is a number only while the element is rendered.
GetWidth(s) == s.host["width"]

SetWidth(s, value) ==
    LET num == IsNumeric(value)
        n == NumberOf(value)
    IN  Then(HostSetAttribute(s, "width", ToAttrString(value)),
        LAMBDA s1 :
        Then([s1 EXCEPT
                !.style["width"] =
                    SetLength(@, value # NULL /\ num /\ n >= 0,
                              ToAttrString(value) \o "px"),
                !.handleStyle["width"] =
                    SetLength(@, num /\ n >= 0,
                              FormatHundredths(45 * n) \o "px")],
        LAMBDA s2 :
        LET computed == ParseIntPx(s2.handleStyle["width"])
        IN  [s2 EXCEPT !.handleStyle["--handle-left"] =
                IF num /\ s2.connected
                THEN ToString(n - computed - 4) \o "px" ELSE "NaNpx"]))

\* get height / set height
GetHeight(s) == s.host["height"]

SetHeight(s, value) ==
    LET num == IsNumeric(value)
        n == NumberOf(value)
    IN  Then(HostSetAttribute(s, "height", ToAttrString(value)),
        LAMBDA s1 :
        [s1 EXCEPT
           !.style["height"] =
               SetLength(@, value # NULL /\ num /\ n >= 0,
                         ToAttrString(value) \o "px"),
           !.handleStyle["height"] =
               SetLength(@, num /\ n - 4 >= 0, ToString(n - 4) \o "px")])

\* get color / set color
GetColor(s) == s.host["color"]

\* set color without the VALID_COLORS test.
SetColor_Unvalidated(s, value) ==
    HostSetAttribute(s, "color", ToAttrString(value))

SetColor(s, value) ==
    IF value \notin VALID_COLORS THEN s
    ELSE HostSetAttribute(s, "color", ToAttrString(value))

\* get 'on-text'  / set 'on-text' 
GetOnText(s) == s.label["on-text"]

SetOnText(s, value) ==
    HostSetAttribute([s EXCEPT !.label["on-text"] = ToAttrString(value)],
                     "on-text", ToAttrString(value))

\* get onText / set onText
GetOnTextCamel(s) == GetOnText(s)

SetOnTextCamel(s, value) == SetOnText(s, value)

\* get 'off-text'  / set 'off-text' 
GetOffText(s) == s.label["off-text"]

SetOffText(s, value) ==
    HostSetAttribute([s EXCEPT !.label["off-text"] = ToAttrString(value)],
                     "off-text", ToAttrString(value))

\* get offText / set offText
GetOffTextCamel(s) == GetOffText(s)

SetOffTextCamel(s, value) == SetOffText(s, value)

\* get name / set name
GetName(s) == s.host["name"]

SetName(s, value) ==
    HostSetAttribute([s EXCEPT !.checkbox["name"] = ToAttrString(value)],
                     "name", ToAttrString(value))

\* get value / set value
GetValue(s) == s.host["value"]

\* set value that writes the host attribute only.
SetValue_HostOnly(s, value) ==
    HostSetAttribute(s, "value", ToAttrString(value))

SetValue(s, value) ==
    Then(HostSetAttribute(s, "value", ToAttrString(value)),
    LAMBDA s1 : [s1 EXCEPT !.checkbox["value"] = ToAttrString(value)])

\* this[attr]: the property named attr is read.
GetProperty(s, attr) ==
    CASE attr = "checked" -> GetChecked(s)
      [] attr = "disabled" -> GetDisabled(s)
      [] attr = "readonly" -> GetReadonly(s)
      [] attr = "value" -> GetValue(s)
      [] attr = "width" -> GetWidth(s)
      [] attr = "height" -> GetHeight(s)
      [] attr = "name" -> GetName(s)
      [] attr = "color" -> GetColor(s)
      [] attr = "on-text" -> GetOnText(s)
      [] attr = "off-text" -> GetOffText(s)
      [] attr = "onText" -> GetOnTextCamel(s)
      [] attr = "offText" -> GetOffTextCamel(s)

\* this[attr] = value: the property named attr is written.
SetProperty(s, attr, value) ==
    CASE attr = "checked" -> SetChecked(s, value)
      [] attr = "disabled" -> SetDisabled(s, value)
      [] attr = "readonly" -> SetReadonly(s, value)
      [] attr = "value" -> SetValue(s, value)
      [] attr = "width" -> SetWidth(s, value)
      [] attr = "height" -> SetHeight(s, value)
      [] attr = "name" -> SetName(s, value)
      [] attr = "color" -> SetColor(s, value)
      [] attr = "on-text" -> SetOnText(s, value)
      [] attr = "off-text" -> SetOffText(s, value)
      [] attr = "onText" -> SetOnTextCamel(s, value)
      [] attr = "offText" -> SetOffTextCamel(s, value)

\* attributeChangedCallback without the oldValue !== newValue test.
AttributeChangedCallback_Unguarded(s, attr, oldValue, newValue) ==
    IF s.depth >= MaxCalls THEN [s EXCEPT !.diverged = TRUE]
    ELSE Then([s EXCEPT !.depth = @ + 1,
                        !.calls = IF @ > s.depth THEN @ ELSE s.depth + 1],
         LAMBDA s0 :
         Then(IF attr \in BoolAttrs
              THEN LET hasAttr == newValue # NULL
                   IN  Then(SetProperty(s0, attr, hasAttr),
                       LAMBDA s1 :
                       [s1 EXCEPT !.classList =
                           IF hasAttr THEN @ \cup {attr} ELSE @ \ {attr}])
              ELSE SetProperty(s0, attr, newValue),
         LAMBDA r : [r EXCEPT !.depth = s.depth]))

\* attributeChangedCallback that adds the class and never removes it.
AttributeChangedCallback_KeepsClass(s, attr, oldValue, newValue) ==
    IF s.depth >= MaxCalls THEN [s EXCEPT !.diverged = TRUE]
    ELSE Then([s EXCEPT !.depth = @ + 1,
                        !.calls = IF @ > s.depth THEN @ ELSE s.depth + 1],
         LAMBDA s0 :
         Then(IF attr \in BoolAttrs
              THEN LET hasAttr == newValue # NULL
                   IN  Then(SetProperty(s0, attr, hasAttr),
                       LAMBDA s1 :
                       [s1 EXCEPT !.classList =
                           IF hasAttr THEN @ \cup {attr} ELSE @])
              ELSE IF oldValue # newValue
                   THEN SetProperty(s0, attr, newValue)
                   ELSE s0,
         LAMBDA r : [r EXCEPT !.depth = s.depth]))

\* attributeChangedCallback(attr, oldValue, newValue).  depth is the number
\* of invocations that have not returned yet and calls the deepest nesting
\* the running operation has reached; an invocation nested deeper than
\* MaxCalls is cut and reported in diverged.
AttributeChangedCallback(s, attr, oldValue, newValue) ==
    IF s.depth >= MaxCalls THEN [s EXCEPT !.diverged = TRUE]
    ELSE Then([s EXCEPT !.depth = @ + 1,
                        !.calls = IF @ > s.depth THEN @ ELSE s.depth + 1],
         LAMBDA s0 :
         Then(IF attr \in BoolAttrs
              THEN LET hasAttr == newValue # NULL
                   IN  Then(SetProperty(s0, attr, hasAttr),
                       LAMBDA s1 :
                       [s1 EXCEPT !.classList =
                           IF hasAttr THEN @ \cup {attr} ELSE @ \ {attr}])
              ELSE IF oldValue # newValue
                   THEN SetProperty(s0, attr, newValue)
                   ELSE s0,
         LAMBDA r : [r EXCEPT !.depth = s.depth]))

\* Element.setAttribute on the host: the attribute is stored, and for an
\* observed attribute the callback runs before setAttribute returns, also
\* when the value written is the value held.
HostSetAttribute(s, attr, value) ==
    Then(s,
    LAMBDA s0 :
    Then([s0 EXCEPT !.host[attr] = value],
    LAMBDA s1 :
    IF attr \in observedAttributes
    THEN AttributeChangedCallback(s1, attr, s0.host[attr], value)
    ELSE s1))

\* Element.removeAttribute on the host: nothing happens, and no callback
\* runs, when the attribute is absent.
HostRemoveAttribute(s, attr) ==
    Then(s,
    LAMBDA s0 :
    IF ~HasAttribute(s0.host, attr) THEN s0
    ELSE Then([s0 EXCEPT !.host[attr] = NULL],
         LAMBDA s1 :
         IF attr \in observedAttributes
         THEN AttributeChangedCallback(s1, attr, s0.host[attr], NULL)
         ELSE s1))

\* ------------------------------------------------------------- event target
\* The number of listeners registered for type.
Registered(l, type) == Cardinality({i \in DOMAIN l : l[i] = type})

\* addEventListener that appends without looking for the listener.
AddEventListener_Appends(l, type) == Append(l, type)

\* addEventListener(type, listener, true): a listener already registered
\* with the same type, callback and capture flag is not registered again.
AddEventListener(l, type) ==
    IF Registered(l, type) > 0 THEN l ELSE Append(l, type)

\* removeEventListener(type, listener, true): the entry goes, if there is one.
RemoveEventListener(l, type) ==
    IF Registered(l, type) = 0 THEN l
    ELSE LET i == CHOOSE k \in DOMAIN l :
                    l[k] = type /\ \A j \in 1..(k - 1) : l[j] # type
         IN  SubSeq(l, 1, i - 1) \o SubSeq(l, i + 1, Len(l))

\* _click without the readonly/disabled guard.
ClickListener_Unguarded(s) == SetChecked(s, ~GetChecked(s))

\* _click that switches on instead of inverting.
ClickListener_SwitchesOn(s) ==
    IF GetReadonly(s) \/ GetDisabled(s) THEN s ELSE SetChecked(s, TRUE)

\* _click(e)
ClickListener(s) ==
    IF GetReadonly(s) \/ GetDisabled(s) THEN s
    ELSE SetChecked(s, ~GetChecked(s))

\* _keyup that answers SPACE only.
KeyupListener_SpaceOnly(s, which) ==
    IF GetReadonly(s) \/ GetDisabled(s) THEN s
    ELSE IF which = SPACE THEN SetChecked(s, ~GetChecked(s)) ELSE s

\* _keyup(e), e.which = which
KeyupListener(s, which) ==
    IF GetReadonly(s) \/ GetDisabled(s) THEN s
    ELSE IF which = SPACE \/ which = ENTER
         THEN SetChecked(s, ~GetChecked(s))
         ELSE s

\* An event dispatched at the host runs its listener once for every entry
\* of the listener list that has the event's type.
RECURSIVE RunClickListeners(_, _)
RunClickListeners(s, n) ==
    IF n = 0 THEN s ELSE RunClickListeners(ClickListener(s), n - 1)

RECURSIVE RunKeyupListeners(_, _, _)
RunKeyupListeners(s, which, n) ==
    IF n = 0 THEN s
    ELSE RunKeyupListeners(KeyupListener(s, which), which, n - 1)

\* A click event dispatched at the host.  toggle() is this.click(), which
\* dispatches exactly such an event.
DispatchClick(s) == RunClickListeners(s, Registered(s.listeners, "click"))

DispatchKeyup(s, which) ==
    RunKeyupListeners(s, which, Registered(s.listeners, "keyup"))

ToggleMethod(s) == DispatchClick(s)

\* ---------------------------------------------------------------- lifecycle
\* this.setAttribute(attr, value) without the hasAttribute test.
DefaultAttribute_Overwrites(s, attr, value) ==
    HostSetAttribute(s, attr, value)

\* if (!this.hasAttribute(attr)) this.setAttribute(attr, value)
DefaultAttribute(s, attr, value) ==
    IF ~HasAttribute(s.host, attr) THEN HostSetAttribute(s, attr, value) ELSE s

\* this.hasAttribute('checked'), without || true.
ConnectedChecked_FromAttribute(s) == HasAttribute(s.host, "checked")

\* this.hasAttribute('checked') || true
ConnectedChecked(s) == HasAttribute(s.host, "checked") \/ TRUE

\* disconnectedCallback that removes the keyup listener only.
DisconnectedCallbackBody_KeepsClick(s) ==
    [s EXCEPT !.listeners = RemoveEventListener(@, "keyup")]

\* disconnectedCallback()
DisconnectedCallbackBody(s) ==
    [s EXCEPT !.listeners =
        RemoveEventListener(RemoveEventListener(@, "click"), "keyup")]

\* -------------------------------------------------------------- the machine
CheckedOf(s) ==
    <<HasAttribute(s.host, "checked"), HasAttribute(s.shadowCheck, "checked"),
      HasAttribute(s.checkbox, "checked")>>

\* The values a page writes to an attribute or to its property.
Inputs(attr) ==
    CASE attr \in BoolAttrs -> {""}
      [] attr \in {"width", "height"} -> Sizes
      [] attr = "color" -> Colors
      [] attr = "role" -> {"switch"}
      [] attr = "tabindex" -> {"-1"}
      [] OTHER -> Str

\* The state after the constructor: a host without attributes, the template's
\* checkbox, label and handle in the shadow root, and the form checkbox.
Init ==
    /\ host = [a \in HostAttrs |-> NULL]
    /\ shadowCheck = [a \in BoolAttrs |-> NULL]
    /\ checkbox = [a \in BoolAttrs \cup {"name", "value"} |-> NULL]
    /\ label = [a \in {"on-text", "off-text"} |-> NULL]
    /\ style = [p \in {"width", "height"} |-> NULL]
    /\ handleStyle = [p \in {"width", "height", "--handle-left"} |-> NULL]
    /\ classList = {}
    /\ listeners = <<>>
    /\ connected = FALSE
    /\ calls = 0
    /\ diverged = FALSE
    /\ op = [name |-> "new", attr |-> "", arg |-> ""]
    /\ pre = <<FALSE, FALSE, FALSE>>
    /\ prevOp = "new"

\* One operation has returned with the element as s; op names it, pre holds
\* the three checked flags it started from and prevOp names the operation
\* before it.
Return(s, name, attr, arg) ==
    /\ host' = s.host
    /\ shadowCheck' = s.shadowCheck
    /\ checkbox' = s.checkbox
    /\ label' = s.label
    /\ style' = s.style
    /\ handleStyle' = s.handleStyle
    /\ classList' = s.classList
    /\ listeners' = s.listeners
    /\ connected' = s.connected
    /\ calls' = s.calls
    /\ diverged' = s.diverged
    /\ op' = [name |-> name, attr |-> attr, arg |-> arg]
    /\ pre' = CheckedOf(El)
    /\ prevOp' = op.name

Enter == [El EXCEPT !.calls = 0]

\* connectedCallback(), run when the element is inserted into a document:
\* the defaults, the size, the three flags and the two listeners, each
\* statement applied to the element the statement before it left.
ConnectedCallback ==
    \E s0 \in {[Enter EXCEPT !.connected = TRUE]} :
    \E s1 \in {DefaultAttribute(s0, "role", "checkbox")} :
    \E s2 \in {DefaultAttribute(s1, "tabindex", "0")} :
    \E s3 \in {DefaultAttribute(s2, "color", "info")} :
    \E s4 \in {DefaultAttribute(s3, "on-text", "ON")} :
    \E s5 \in {DefaultAttribute(s4, "off-text", "OFF")} :
    \E s6 \in {DefaultAttribute(s5, "value", "1")} :
    \E s7 \in {SetHeight(s6, "24")} :
    \E s8 \in {SetWidth(s7, "48")} :
    \E s9 \in {SetChecked(s8, ConnectedChecked(s8))} :
    \E s10 \in {SetDisabled(s9, HasAttribute(s9.host, "disabled") \/ FALSE)} :
    \E s11 \in {SetReadonly(s10, HasAttribute(s10.host, "readonly") \/ FALSE)} :
        Return([s11 EXCEPT !.listeners =
                   AddEventListener(AddEventListener(@, "click"), "keyup")],
               "connect", "", "")

\* disconnectedCallback(), run when the element is removed from its document.
DisconnectedCallback ==
    \E s \in {DisconnectedCallbackBody([Enter EXCEPT !.connected = FALSE])} :
        Return(s, "disconnect", "", "")

\* A click event at the host.
Click ==
    \E s \in {DispatchClick(Enter)} : Return(s, "click", "", "")

\* A keyup event at the host.
Keyup ==
    \E which \in Keys : \E s \in {DispatchKeyup(Enter, which)} :
        Return(s, "keyup", "", ToString(which))

\* el.toggle()
Toggle ==
    \E s \in {ToggleMethod(Enter)} : Return(s, "toggle", "", "")

\* el.checked = v, el.disabled = v, el.readonly = v
WriteBoolProperty ==
    \E attr \in BoolAttrs, v \in BOOLEAN :
    \E s \in {SetProperty(Enter, attr, v)} :
        Return(s, "property", attr, ToString(v))

\* el[attr] = v for the other properties of the set attrs
WriteProperty(attrs) ==
    \E attr \in attrs : \E v \in Inputs(attr) :
    \E s \in {SetProperty(Enter, attr, v)} :
        Return(s, "property", attr, v)

\* el.setAttribute(attr, v)
WriteAttribute(attrs) ==
    \E attr \in attrs : \E v \in Inputs(attr) :
    \E s \in {HostSetAttribute(Enter, attr, v)} :
        Return(s, "setAttribute", attr, v)

\* el.removeAttribute(attr)
RemoveAttribute(attrs) ==
    \E attr \in attrs :
    \E s \in {HostRemoveAttribute(Enter, attr)} :
        Return(s, "removeAttribute", attr, "")

\* The on/off state and what guards it: the three boolean attributes, the
\* listeners and toggle().
NextSwitch ==
    \/ ConnectedCallback
    \/ DisconnectedCallback
    \/ Click
    \/ Keyup
    \/ Toggle
    \/ WriteBoolProperty
    \/ WriteAttribute(BoolAttrs)
    \/ RemoveAttribute(BoolAttrs)

SpecSwitch == Init /\ [][NextSwitch]_vars

\* The form control: the three flags with the name and value of the form
\* checkbox.
FormAttrs == BoolAttrs \cup {"name", "value"}

NextForm ==
    \/ ConnectedCallback
    \/ DisconnectedCallback
    \/ WriteBoolProperty
    \/ WriteProperty({"name", "value"})
    \/ WriteAttribute(FormAttrs)
    \/ RemoveAttribute(FormAttrs)

SpecForm == Init /\ [][NextForm]_vars

\* The string attributes and their mirrors.
TextAttrs == {"name", "value", "on-text", "off-text"}
TextProperties == TextAttrs \cup {"onText", "offText"}

NextText ==
    \/ ConnectedCallback
    \/ DisconnectedCallback
    \/ WriteProperty(TextProperties)
    \/ WriteAttribute(TextAttrs)
    \/ RemoveAttribute(TextAttrs)

SpecText == Init /\ [][NextText]_vars

\* The colour theme, with the on/off state a click changes.
NextColor ==
    \/ ConnectedCallback
    \/ DisconnectedCallback
    \/ Click
    \/ WriteProperty({"color"})
    \/ WriteAttribute({"color"})
    \/ RemoveAttribute({"color"})

SpecColor == Init /\ [][NextColor]_vars

\* The attributes connectedCallback gives a default, and the two flags it
\* reads back, as a page sets them in markup or by setAttribute.
DefaultedAttrs == {"role", "tabindex", "color", "on-text", "off-text", "value"}

NextDefaults ==
    \/ ConnectedCallback
    \/ DisconnectedCallback
    \/ WriteAttribute(DefaultedAttrs \cup {"disabled", "readonly"})
    \/ RemoveAttribute({"disabled", "readonly"})

SpecDefaults == Init /\ [][NextDefaults]_vars

\* Every observed attribute, for a page that writes the attributes of one
\* group and leaves the others as the constructor or connectedCallback left
\* them.
Groups ==
    {BoolAttrs, {"name", "value"}, {"on-text", "off-text"}, {"color"},
     {"width", "height"}}

\* What connectedCallback leaves in an attribute the page did not write.
ConnectedValue(attr) ==
    CASE attr = "checked" -> ""
      [] attr = "color" -> "info"
      [] attr = "on-text" -> "ON"
      [] attr = "off-text" -> "OFF"
      [] attr = "value" -> "1"
      [] attr = "width" -> "48"
      [] attr = "height" -> "24"
      [] OTHER -> NULL

OthersUntouched(group) ==
    \A a \in observedAttributes \ group :
        host[a] \in {NULL, ConnectedValue(a)}

PropertiesOf(group) ==
    IF group = {"on-text", "off-text"}
    THEN group \cup {"onText", "offText"} ELSE group

NextSync ==
    \/ ConnectedCallback
    \/ DisconnectedCallback
    \/ Click
    \/ OthersUntouched(BoolAttrs) /\ WriteBoolProperty
    \/ \E g \in Groups \ {BoolAttrs} :
          OthersUntouched(g) /\ WriteProperty(PropertiesOf(g))
    \/ \E g \in Groups : OthersUntouched(g) /\ WriteAttribute(g)
    \/ \E g \in Groups : OthersUntouched(g) /\ RemoveAttribute(g)

SpecSync == Init /\ [][NextSync]_vars

\* The size of the switch and of its handle.
SizeAttrs == {"width", "height"}

NextSize ==
    \/ ConnectedCallback
    \/ DisconnectedCallback
    \/ WriteProperty(SizeAttrs)
    \/ WriteAttribute(SizeAttrs)
    \/ RemoveAttribute(SizeAttrs)

SpecSize == Init /\ [][NextSize]_vars

\* =================================================================== claims
Inverted(t) == <<~t[1], ~t[2], ~t[3]>>

Interactions == {"click", "keyup", "toggle"}

\* C1: once an operation has returned, the host has the checked attribute
\* exactly when shadowCheck has it and exactly when the form checkbox has it.
C1_CheckedCopiesAgree ==
    /\ HasAttribute(host, "checked") <=> HasAttribute(shadowCheck, "checked")
    /\ HasAttribute(host, "checked") <=> HasAttribute(checkbox, "checked")

\* A click on a connected, enabled switch that was on has switched all three
\* copies off.
C1_Witness ==
    /\ op.name = "click"
    /\ pre = <<TRUE, TRUE, TRUE>>
    /\ CheckedOf(El) = <<FALSE, FALSE, FALSE>>

\* C2: while the host is disabled or readonly, a click, a keyup of any key
\* and toggle() leave the on/off state as it was.
C2_GuardedWhenDisabledOrReadonly ==
    [][(/\ GetDisabled(El) \/ GetReadonly(El)
        /\ op'.name \in Interactions)
       => CheckedOf(El') = CheckedOf(El)]_vars

\* A click reached the click listener of a disabled switch that was on, and
\* the switch is still on.
C2_Witness ==
    /\ op.name = "click"
    /\ GetDisabled(El)
    /\ Registered(listeners, "click") = 1
    /\ pre = <<TRUE, TRUE, TRUE>>
    /\ CheckedOf(El) = pre

\* C3: two consecutive toggle() calls leave checked, and the checked attribute
\* of both inner checkboxes, as they were before the first call.
C3_ToggleTwiceRestores ==
    [][(op.name = "toggle" /\ op'.name = "toggle")
       => CheckedOf(El') = pre]_vars

\* The second of two consecutive toggle() calls has inverted the state the
\* first one left.
C3_Witness ==
    /\ op.name = "toggle"
    /\ prevOp = "toggle"
    /\ CheckedOf(El) = Inverted(pre)

\* C9: on a connected switch that is neither disabled nor readonly, a click,
\* a SPACE keyup and an ENTER keyup each invert checked once, and a keyup of
\* another key leaves it.
C9_InteractionInvertsOnce ==
    [][(connected /\ ~GetDisabled(El) /\ ~GetReadonly(El))
       => /\ (op'.name = "click" \/ (op'.name = "keyup"
                /\ op'.arg \in {ToString(SPACE), ToString(ENTER)}))
             => CheckedOf(El') = Inverted(CheckedOf(El))
          /\ (op'.name = "keyup"
                /\ op'.arg \notin {ToString(SPACE), ToString(ENTER)})
             => CheckedOf(El') = CheckedOf(El)]_vars

\* An ENTER keyup on a connected, enabled switch has inverted it.
C9_Witness ==
    /\ op = [name |-> "keyup", attr |-> "", arg |-> "13"]
    /\ connected /\ ~GetDisabled(El) /\ ~GetReadonly(El)
    /\ CheckedOf(El) = Inverted(pre)

\* The entries the form checkbox adds to a submitted form (HTML, constructing
\* the entry list): none when it is disabled, unchecked or without a name.
FormEntries(s) ==
    IF \/ HasAttribute(s.checkbox, "disabled")
       \/ ~HasAttribute(s.checkbox, "checked")
       \/ s.checkbox["name"] \in {NULL, ""}
    THEN {}
    ELSE {<<s.checkbox["name"],
            IF HasAttribute(s.checkbox, "value")
            THEN s.checkbox["value"] ELSE "on">>}

C4_FormCheckboxFollowsHost ==
    /\ HasAttribute(checkbox, "disabled") <=> GetDisabled(El)
    /\ checkbox["name"] = GetName(El)
    /\ checkbox["value"] = GetValue(El)
    /\ (GetReadonly(El) /\ ~GetDisabled(El) /\ GetChecked(El)
          /\ GetName(El) \notin {NULL, ""} /\ GetValue(El) # NULL)
       => FormEntries(El) = {<<GetName(El), GetValue(El)>>}
    /\ GetDisabled(El) => FormEntries(El) = {}

C4_ReadonlyWriteKeepsFormCheckboxEnabled ==
    (op'.attr = "readonly" /\ ~HasAttribute(checkbox, "disabled"))
    => ~HasAttribute(checkbox', "disabled")

\* C4: the form checkbox carries disabled exactly when the host is disabled,
\* its name and value are the host's, a write of readonly never puts disabled
\* on it; so a disabled switch submits nothing and a readonly, checked, named
\* switch submits its name/value pair.
C4_DisabledNotSubmittedReadonlySubmitted ==
    /\ []C4_FormCheckboxFollowsHost
    /\ [][C4_ReadonlyWriteKeepsFormCheckboxEnabled]_vars

\* readonly has just been set on a checked, named switch that is not
\* disabled, and the form checkbox submits the pair.
C4_Witness ==
    /\ op.attr = "readonly"
    /\ GetReadonly(El) /\ ~GetDisabled(El)
    /\ GetName(El) \in Str
    /\ FormEntries(El) = {<<GetName(El), GetValue(El)>>}

\* C5: a write of the color property with a value that is none of the seven
\* themes changes nothing: the color attribute, every other host attribute
\* and every inner element stay as they were.
C5_InvalidColorPropertyIgnored ==
    [][(op'.name = "property" /\ op'.attr = "color"
          /\ op'.arg \notin VALID_COLORS)
       => UNCHANGED <<host, shadowCheck, checkbox, label, style, handleStyle,
                      classList, listeners>>]_vars

\* The color property of a switch coloured "primary" was written with
\* "purple", and the switch is still "primary".
C5_Witness ==
    /\ op = [name |-> "property", attr |-> "color", arg |-> "purple"]
    /\ GetColor(El) = "primary"

\* C6: on a connected switch whose color is one of the seven themes, a write
\* of the color property or of the color attribute leaves a color that is
\* one of the seven themes, and a write of an invalid value leaves the color
\* held before.
C6_ColorStaysValid ==
    [][(/\ connected
        /\ GetColor(El) \in VALID_COLORS
        /\ op'.name \in {"property", "setAttribute"}
        /\ op'.attr = "color")
       => /\ GetColor(El') \in VALID_COLORS
          /\ op'.arg \notin VALID_COLORS => GetColor(El') = GetColor(El)]_vars

\* C7: an element that has width and height attributes when it is connected
\* has that width and height, and a handle sized for them, after
\* connectedCallback.
C7_ConnectKeepsConfiguredSize ==
    [][(/\ op'.name = "connect"
        /\ HasAttribute(host, "width")
        /\ HasAttribute(host, "height"))
       => /\ GetWidth(El') = GetWidth(El)
          /\ GetHeight(El') = GetHeight(El)
          /\ style' = style
          /\ handleStyle'["width"] = handleStyle["width"]
          /\ handleStyle'["height"] = handleStyle["height"]]_vars

\* C8: after a write of width w the host style width is w px and the handle
\* style width 0.45 * w px; after a write of height h the host style height
\* is h px and the handle style height (h - 4) px.
C8_HandleFollowsSize ==
    (op.name \in {"property", "setAttribute"} /\ op.attr \in SizeAttrs)
    => /\ op.attr = "width"
          => /\ style["width"] = op.arg \o "px"
             /\ handleStyle["width"]
                  = FormatHundredths(45 * NumberOf(op.arg)) \o "px"
       /\ op.attr = "height"
          => /\ style["height"] = op.arg \o "px"
             /\ handleStyle["height"]
                  = ToString(NumberOf(op.arg) - 4) \o "px"

\* The attribute a property is stored in, and the inner attribute that
\* mirrors it.
AttributeOf(prop) ==
    CASE prop = "onText" -> "on-text"
      [] prop = "offText" -> "off-text"
      [] OTHER -> prop

MirrorOf(s, attr) ==
    IF attr \in {"name", "value"} THEN s.checkbox[attr] ELSE s.label[attr]

\* C10: after a property write or host setAttribute of name, value, on-text
\* or off-text (or onText, offText) with a string v, the property getter
\* returns v, the host attribute is v and the mirror is v.
C10_TextInSync ==
    (op.name \in {"property", "setAttribute"} /\ op.attr \in TextProperties)
    => /\ GetProperty(El, op.attr) = op.arg
       /\ host[AttributeOf(op.attr)] = op.arg
       /\ MirrorOf(El, AttributeOf(op.attr)) = op.arg
       /\ GetProperty(El, AttributeOf(op.attr)) = op.arg

\* offText was written with "b" on a connected switch, whose off-text was
\* "OFF" or another string before, and host and label hold "b".
C10_Witness ==
    /\ op = [name |-> "property", attr |-> "offText", arg |-> "b"]
    /\ connected
    /\ host["off-text"] = "b" /\ label["off-text"] = "b"

\* The value connectedCallback writes to an attribute that is absent.
DefaultOf(attr) ==
    CASE attr = "role" -> "checkbox"
      [] attr = "tabindex" -> "0"
      [] attr = "color" -> "info"
      [] attr = "on-text" -> "ON"
      [] attr = "off-text" -> "OFF"
      [] attr = "value" -> "1"

\* C11: after connectedCallback each of role, tabindex, color, on-text,
\* off-text and value holds its default when it was absent and its earlier
\* value when it was present, checked is on, and disabled and readonly are
\* on exactly when their attribute was present before.
C11_ConnectDefaultsOnlyAbsent ==
    [][op'.name = "connect"
       => /\ \A a \in DefaultedAttrs :
               host'[a] = IF HasAttribute(host, a) THEN host[a]
                          ELSE DefaultOf(a)
          /\ GetChecked(El')
          /\ GetDisabled(El') <=> HasAttribute(host, "disabled")
          /\ GetReadonly(El') <=> HasAttribute(host, "readonly")]_vars

\* A switch was connected that had a role, a colour and an on-text of its
\* own and was readonly, and no tabindex, off-text or value.
C11_Witness ==
    /\ op.name = "connect"
    /\ prevOp = "setAttribute"
    /\ host["role"] = "switch" /\ host["color"] = "dark"
    /\ host["on-text"] = "a"
    /\ host["tabindex"] = "0" /\ host["off-text"] = "OFF"
    /\ host["value"] = "1"
    /\ GetReadonly(El) /\ ~GetDisabled(El) /\ GetChecked(El)

\* C12: before the first connectedCallback and after disconnectedCallback a
\* click, a keyup and toggle() leave checked as it was; on a switch that is
\* connected (again) and neither disabled nor readonly a click and toggle()
\* invert it.
C12_DetachedListenersDoNothing ==
    [][op'.name \in Interactions
       => /\ ~connected => CheckedOf(El') = CheckedOf(El)
          /\ (/\ connected /\ ~GetDisabled(El) /\ ~GetReadonly(El)
              /\ op'.name \in {"click", "toggle"})
             => CheckedOf(El') = Inverted(CheckedOf(El))]_vars

\* A switch that is on and neither disabled nor readonly was disconnected
\* and then clicked, and it is still on.
C12_Witness ==
    /\ op.name = "click"
    /\ prevOp = "disconnect"
    /\ ~connected /\ ~GetDisabled(El) /\ ~GetReadonly(El)
    /\ pre = <<TRUE, TRUE, TRUE>>
    /\ CheckedOf(El) = <<TRUE, TRUE, TRUE>>

\* An element takes focus when it has a tabindex attribute that is an
\* integer (HTML, the tabindex attribute); a custom element has no disabled
\* state of its own that would take it away.
Focusable(s) == s.host["tabindex"] \in {"0", "-1"}

\* C13: a disabled host has no tabindex that makes it focusable, and a write
\* of readonly leaves the tabindex as it was.
C13_DisabledNotFocusable ==
    /\ [](GetDisabled(El) => ~Focusable(El))
    /\ [][op'.attr = "readonly" => host'["tabindex"] = host["tabindex"]]_vars

\* C14: every property write and every host setAttribute or removeAttribute
\* of an observed attribute returns after a bounded nesting of
\* attributeChangedCallback and setter invocations.
C14_SyncTerminates == ~diverged /\ calls < MaxCalls

\* A removeAttribute has returned after the callback re-entered the setter
\* and the setter the callback, three invocations deep.
C14_Witness ==
    /\ op.name = "removeAttribute"
    /\ calls = 3
    /\ ~diverged

\* C15: the host has disabled exactly when shadowCheck has it and exactly
\* when the form checkbox has it, and the same for readonly.
C15_FlagsMirrored ==
    \A a \in {"disabled", "readonly"} :
        /\ HasAttribute(host, a) <=> HasAttribute(shadowCheck, a)
        /\ HasAttribute(host, a) <=> HasAttribute(checkbox, a)

\* readonly was just removed from a disabled host, and both checkboxes are
\* disabled and not readonly.
C15_Witness ==
    /\ op = [name |-> "removeAttribute", attr |-> "readonly", arg |-> ""]
    /\ HasAttribute(shadowCheck, "disabled")
    /\ HasAttribute(checkbox, "disabled")
    /\ ~HasAttribute(shadowCheck, "readonly")
    /\ ~HasAttribute(checkbox, "readonly")
    /\ prevOp \in {"property", "setAttribute"}

\* C16: a connected switch has exactly one click listener and one keyup
\* listener however often connectedCallback has run, and a click, a SPACE
\* keyup and an ENTER keyup on it, when it is neither disabled nor readonly,
\* invert checked rather than toggling it back.
C16_ListenersRegisteredOnce ==
    /\ [](connected => /\ Registered(listeners, "click") = 1
                       /\ Registered(listeners, "keyup") = 1)
    /\ [][(/\ connected /\ ~GetDisabled(El) /\ ~GetReadonly(El)
           /\ \/ op'.name = "click"
              \/ op'.name = "keyup"
                   /\ op'.arg \in {ToString(SPACE), ToString(ENTER)})
          => CheckedOf(El') = Inverted(CheckedOf(El))]_vars

\* connectedCallback ran twice in a row, and the listener list holds one
\* click and one keyup listener.
C16_Witness ==
    /\ op.name = "connect"
    /\ prevOp = "connect"
    /\ Len(listeners) = 2

C18_ClassesMirrorFlags ==
    classList \cap BoolAttrs = {a \in BoolAttrs : HasAttribute(host, a)}

\* A click has switched a disabled-class-free, readonly-class-free switch
\* off, and the class checked is gone with the attribute.
C18_Witness ==
    /\ op.name = "click"
    /\ pre = <<TRUE, TRUE, TRUE>>
    /\ ~GetChecked(El)
    /\ classList = {}

====
